---- MODULE Spec2Model ----
(***************************************************************************)
(* A model of package hashfs (src/hashfs.go): content-hashed paths for the *)
(* files of an fs.FS, the process-wide cache of computed paths, the        *)
(* decoding of a hashed path back to its file name, and the HTTP handler   *)
(* that rewrites a hashed request path before it delegates to the file     *)
(* server.                                                                 *)
(*                                                                         *)
(* Strings are sequences of one-character strings, so that filepath.Ext    *)
(* and the slicing the code does are computed character by character.      *)
(***************************************************************************)
EXTENDS Integers, Sequences, FiniteSets, TLC

VARIABLES fsys, cachedHashes, proc, readKeys

vars == <<fsys, cachedHashes, proc, readKeys>>

(***************************************************************************)
(* Bounds of the model.                                                    *)
(***************************************************************************)
\* Goroutines that call into the package.
NProcs == 2
\* Longest arbitrary input string (over Alphabet) handed to Unhashed.
MaxLen == 3

Procs == 1..NProcs

(***************************************************************************)
(* Strings.                                                                *)
(***************************************************************************)
Empty == <<>>

Alphabet == {"a", ".", "/"}

RECURSIVE StringsOfLen(_)
StringsOfLen(n) ==
    IF n = 0 THEN {Empty}
    ELSE {Append(s, c) : s \in StringsOfLen(n - 1), c \in Alphabet}

Strings == UNION {StringsOfLen(n) : n \in 0..MaxLen}

\* os.IsPathSeparator on a slash-separated platform.
IsPathSeparator(c) == c = "/"

\* filepath.Ext scans back from the end of path for a '.', and stops at
\* the first path separator: the index of that '.', or 0.
RECURSIVE ExtIndex(_, _)
ExtIndex(path, i) ==
    IF i < 1 \/ IsPathSeparator(path[i]) THEN 0
    ELSE IF path[i] = "." THEN i
    ELSE ExtIndex(path, i - 1)

\* A plausible slip: the scan does not stop at a path separator.
RECURSIVE ExtIndexAnySegment(_, _)
ExtIndexAnySegment(path, i) ==
    IF i < 1 THEN 0
    ELSE IF path[i] = "." THEN i
    ELSE ExtIndexAnySegment(path, i - 1)

ExtAnySegment(path) ==
    LET i == ExtIndexAnySegment(path, Len(path))
    IN  IF i = 0 THEN Empty ELSE SubSeq(path, i, Len(path))

\* filepath.Ext(path)
Ext(path) ==
    LET i == ExtIndex(path, Len(path))
    IN  IF i = 0 THEN Empty ELSE SubSeq(path, i, Len(path))

\* strings.TrimPrefix(s, "/")
TrimPrefix(s) ==
    IF Len(s) >= 1 /\ s[1] = "/" THEN SubSeq(s, 2, Len(s)) ELSE s

\* s[0:n] of Go, defined for 0 <= n <= len(s).
Prefix(s, n) == SubSeq(s, 1, n)

(***************************************************************************)
(* File contents and their digests.  Sha256Hex6 is the table of            *)
(* fmt.Sprintf("%x", sha256(content)[:6]) for the contents of the model.   *)
(***************************************************************************)
Contents == {"empty", "main.js", "a", "b"}

Sha256Hex6(content) ==
    CASE content = "empty"   -> <<"e","3","b","0","c","4","4","2","9","8","f","c">>
      [] content = "main.js" -> <<"6","0","7","9","7","d","b","6","e","8","f","f">>
      [] content = "a"       -> <<"c","a","9","7","8","1","1","2","c","a","1","b">>
      [] content = "b"       -> <<"3","e","2","3","e","8","1","6","0","0","3","9">>

ZeroHash == <<"0","0","0","0","0","0","0","0","0","0","0","0">>

\* fmt.Sprintf("%s.%x%s", filename[0:len(filename)-len(ext)], hashBytes[:6], ext)
NewP(filename, content) ==
    LET ext == Ext(filename)
    IN  Prefix(filename, Len(filename) - Len(ext))
            \o <<".">> \o Sha256Hex6(content) \o ext

(***************************************************************************)
(* The file sets (fs.FS values).  A name of a file set is absent, a        *)
(* directory (fs.Open succeeds and reading it fails), or a regular file    *)
(* with a content.  The root "." of an fs.FS is always a directory.        *)
(***************************************************************************)
Handles == {"h1", "h2"}

Root     == <<".">>
NameA    == <<"a">>
NameMJS  == <<"m", ".", "j", "s">>
NameDX   == <<"d", ".", "x">>
NameDXA  == <<"d", ".", "x", "/", "a">>
NameABJS == <<"a", ".", "b", ".", "j", "s">>
\* A file whose own name has the shape of a hashed path: m.60797db6e8ff.js
NameLook == <<"m", ".">> \o Sha256Hex6("main.js") \o <<".", "j", "s">>
\* A file whose name holds a percent sign: %6D.js
NamePct  == <<"%", "6", "D", ".", "j", "s">>
NameFoo  == <<"f", "o", "o">>

Names == {Root, NameA, NameMJS, NameDX, NameDXA, NameABJS, NameLook, NamePct}

AssetsFS ==
    [n \in Names |->
        CASE n = Root     -> "dir"
          [] n = NameA    -> "empty"
          [] n = NameMJS  -> "main.js"
          [] n = NameDX   -> "dir"
          [] n = NameDXA  -> "a"
          [] n = NameLook -> "a"
          [] n = NamePct  -> "main.js"
          [] OTHER        -> "absent"]

PlainFS ==
    [n \in Names |->
        CASE n = Root     -> "dir"
          [] n = NameA    -> "a"
          [] n = NameMJS  -> "b"
          [] n = NameDX   -> "b"
          [] n = NameABJS -> "b"
          [] n = NameLook -> "a"
          [] OTHER        -> "absent"]

OtherFS ==
    [n \in Names |->
        CASE n = Root     -> "dir"
          [] n = NameMJS  -> "a"
          [] OTHER        -> "absent"]

FileSystems ==
    { [h \in Handles |-> IF h = "h1" THEN AssetsFS ELSE OtherFS],
      [h \in Handles |-> IF h = "h1" THEN PlainFS ELSE OtherFS] }

\* What name is in file set fs: "absent", "dir" or the file's content.
File(fs, name) == IF name \in Names THEN fsys[fs][name] ELSE "absent"

IsRegular(fs, name) == File(fs, name) \in Contents

(***************************************************************************)
(* Errors.                                                                 *)
(***************************************************************************)
NoErr == [kind |-> "nil", arg |-> Empty]

\* fmt.Errorf("hashfs: error opening file: %w", err)
OpenError(filename) == [kind |-> "hashfs: error opening file", arg |-> filename]

\* the error of io.Copy, returned as it is
ReadError(filename) == [kind |-> "read", arg |-> filename]

\* fmt.Errorf("hashfs: path mismatch for %q", urlpath)
PathMismatchError(urlpath) == [kind |-> "hashfs: path mismatch", arg |-> urlpath]

\* fmt.Sprint(err)
Sprint(err) == <<err.kind, err.arg>>

StatusBadRequest == 400

(***************************************************************************)
(* Requests and the frame of a call.  A goroutine is idle or runs one call *)
(* of Path, MaybePath, Unhashed or the handler; pc is its position inside  *)
(* MaybePath, the only place where the shared cache and the file set are   *)
(* touched.                                                                *)
(***************************************************************************)
NoRequest == [Path |-> Empty, RawPath |-> Empty]

IdleFrame ==
    [pc       |-> "idle",     \* idle, load, open, read, store, done
     op       |-> "none",     \* Path, MaybePath, Unhashed, Handle
     fs       |-> "none",     \* the fs.FS argument
     filename |-> Empty,      \* MaybePath's filename
     urlpath  |-> Empty,      \* Unhashed's urlpath
     stage    |-> 0,          \* handler: 1 decodes URL.Path, 2 URL.RawPath
     found    |-> FALSE,      \* what cachedHashes.Load answered
     nopen    |-> 0,          \* files the call has opened and not closed
     val      |-> Empty,      \* the string the call returned
     err      |-> NoErr,      \* the error the call returned
     panicked |-> FALSE,      \* Path panicked
     req0     |-> NoRequest,  \* the caller's request as it was passed in
     req      |-> NoRequest,  \* the caller's request object
     r        |-> NoRequest,  \* the handler's r
     fresh    |-> FALSE,      \* r is an object of its own
     status   |-> 0,          \* status the handler wrote, 0 if none
     body     |-> Empty,      \* body the handler wrote
     served   |-> FALSE,      \* hfs.ServeHTTP was called
     servedReq |-> NoRequest] \* with this request

\* A plausible slip: the handler works on the caller's request.
NoClone(req) == [r |-> req, fresh |-> FALSE]

\* r.Clone(r.Context()): a deep copy, URL included.
Clone(req) == [r |-> req, fresh |-> TRUE]

\* An assignment to a field of r.URL; it reaches the caller's request when
\* r is that same object.
SetURL(fr, url) ==
    [fr EXCEPT !.r = url, !.req = IF fr.fresh THEN fr.req ELSE url]

(***************************************************************************)
(* Unhashed, around its call of MaybePath.                                 *)
(***************************************************************************)
\* A plausible slip: extL is not reset when ext is taken as the hash.
UnhashedBoundStaleExtL(urlpath) ==
    LET urlpathL == Len(urlpath)
        ext0     == Ext(urlpath)
        extL     == Len(ext0)
        hash0    == Ext(Prefix(urlpath, urlpathL - extL))
        hash     == IF hash0 = Empty THEN ext0 ELSE hash0
    IN  urlpathL - extL - Len(hash)

\* The bound urlpathL-extL-len(hash) of the slice that Unhashed takes for
\* the file name.
UnhashedBound(urlpath) ==
    LET urlpathL == Len(urlpath)
        ext0     == Ext(urlpath)
        hash0    == Ext(Prefix(urlpath, urlpathL - Len(ext0)))
        swap     == hash0 = Empty   \* assume extensionless, use ext as hash
        hash     == IF swap THEN ext0 ELSE hash0
        extL     == IF swap THEN 0 ELSE Len(ext0)
    IN  urlpathL - extL - Len(hash)

\* A plausible slip: the extensionless case is not told apart.
UnhashedFilenameNoSwap(urlpath) ==
    LET urlpathL == Len(urlpath)
        ext      == Ext(urlpath)
        extL     == Len(ext)
        hash     == Ext(Prefix(urlpath, urlpathL - extL))
    IN  Prefix(urlpath, urlpathL - extL - Len(hash)) \o ext

\* The file name Unhashed hands to MaybePath.
UnhashedFilename(urlpath) ==
    LET urlpathL == Len(urlpath)
        ext0     == Ext(urlpath)
        hash0    == Ext(Prefix(urlpath, urlpathL - Len(ext0)))
        swap     == hash0 = Empty   \* assume extensionless, use ext as hash
        ext      == IF swap THEN Empty ELSE ext0
    IN  Prefix(urlpath, UnhashedBound(urlpath)) \o ext

\* A plausible slip: the expected path is not compared with the input.
UnhashedReturnNoCompare(urlpath, filename, expectedPath, err) ==
    IF err # NoErr THEN [val |-> Empty, err |-> err]
    ELSE [val |-> filename, err |-> NoErr]

\* A plausible slip: every failure is reported as a path mismatch.
UnhashedReturnAllMismatch(urlpath, filename, expectedPath, err) ==
    IF err # NoErr \/ expectedPath # urlpath
    THEN [val |-> Empty, err |-> PathMismatchError(urlpath)]
    ELSE [val |-> filename, err |-> NoErr]

\* What Unhashed returns once MaybePath has returned (expectedPath, err).
UnhashedReturn(urlpath, filename, expectedPath, err) ==
    IF err # NoErr THEN [val |-> Empty, err |-> err]
    ELSE IF expectedPath # urlpath
    THEN [val |-> Empty, err |-> PathMismatchError(urlpath)]
    ELSE [val |-> filename, err |-> NoErr]

\* Unhashed(fs, urlpath) up to its call of MaybePath(fs, filename).
EnterUnhashed(fr, urlpath) ==
    [fr EXCEPT !.pc = "load", !.urlpath = urlpath,
               !.filename = UnhashedFilename(urlpath), !.found = FALSE]

(***************************************************************************)
(* Path, around its call of MaybePath.                                     *)
(***************************************************************************)
\* A plausible slip: the error is dropped instead of raised.
PathReturnNoPanic(fr, hashed, err) ==
    [fr EXCEPT !.pc = "done", !.val = hashed]

PathReturn(fr, hashed, err) ==
    IF err # NoErr
    THEN [fr EXCEPT !.pc = "done", !.panicked = TRUE, !.err = err]
    ELSE [fr EXCEPT !.pc = "done", !.val = hashed]

(***************************************************************************)
(* The handler of FileServer, around its calls of Unhashed.                *)
(***************************************************************************)
\* A plausible slip: the error is written and the request served anyway.
HttpErrorAndServe(fr, err) ==
    [fr EXCEPT !.pc = "done", !.status = StatusBadRequest,
               !.body = <<Sprint(err), "\n">>,
               !.served = TRUE, !.servedReq = fr.r]

\* http.Error(w, fmt.Sprint(err), http.StatusBadRequest): the status, and
\* the message followed by a newline.
HttpError(fr, err) ==
    [fr EXCEPT !.pc = "done", !.status = StatusBadRequest,
               !.body = <<Sprint(err), "\n">>]

\* hfs.ServeHTTP(w, r)
ServeHTTP(fr) ==
    [fr EXCEPT !.pc = "done", !.served = TRUE, !.servedReq = fr.r]

\* The handler after Unhashed of r.URL.RawPath returned (rawpath, err).
HandlerAfterRawPath(fr, rawpath, err) ==
    IF err # NoErr THEN HttpError(fr, err)
    ELSE ServeHTTP(SetURL(fr, [fr.r EXCEPT !.Path = <<"/">> \o rawpath]))

\* The handler after Unhashed of r.URL.Path returned (filepath, err).
HandlerAfterPath(fr, filepath, err) ==
    IF err # NoErr THEN HttpError(fr, err)
    ELSE LET fr1 == SetURL(fr, [fr.r EXCEPT !.Path = <<"/">> \o filepath])
         IN  IF fr1.r.RawPath # Empty
             THEN EnterUnhashed([fr1 EXCEPT !.stage = 2],
                                TrimPrefix(fr1.r.RawPath))
             ELSE ServeHTTP(fr1)

\* The call returns to what called MaybePath, which runs on to its own
\* return or to its next call of MaybePath.
AfterMaybePath(fr, urlpath, err) ==
    LET u == UnhashedReturn(fr.urlpath, fr.filename, urlpath, err)
    IN  CASE fr.op = "MaybePath" ->
               [fr EXCEPT !.pc = "done", !.val = urlpath, !.err = err]
          [] fr.op = "Path" -> PathReturn(fr, urlpath, err)
          [] fr.op = "Unhashed" ->
               [fr EXCEPT !.pc = "done", !.val = u.val, !.err = u.err]
          [] fr.op = "Handle" /\ fr.stage = 1 ->
               HandlerAfterPath(fr, u.val, u.err)
          [] fr.op = "Handle" /\ fr.stage = 2 ->
               HandlerAfterRawPath(fr, u.val, u.err)

(***************************************************************************)
(* The inputs of the calls.                                                *)
(***************************************************************************)
\* File names handed to Path and MaybePath.
FilenameArgs == Names \cup {NameFoo, Empty}

\* For each name: its hashed path under every content, and with the digest
\* replaced by zeros.
HashedNames ==
    {NewP(n, c) : n \in Names \ {Root}, c \in {"main.js", "a", "b", "empty"}}
        \cup {Prefix(n, Len(n) - Len(Ext(n))) \o <<".">> \o ZeroHash \o Ext(n) :
                n \in Names \ {Root}}

\* Strings handed to Unhashed.
UrlArgs == HashedNames \cup Names \cup Strings \cup {<<".", "a", ".">>}

\* url.Parse unescapes the percent-encoded bytes of a request target.
RECURSIVE Unescape(_)
Unescape(s) ==
    IF s = Empty THEN Empty
    ELSE IF Len(s) >= 3 /\ s[1] = "%" /\ SubSeq(s, 2, 3) = <<"6", "D">>
    THEN <<"m">> \o Unescape(SubSeq(s, 4, Len(s)))
    ELSE IF Len(s) >= 3 /\ s[1] = "%" /\ SubSeq(s, 2, 3) = <<"2", "E">>
    THEN <<".">> \o Unescape(SubSeq(s, 4, Len(s)))
    ELSE <<s[1]>> \o Unescape(Tail(s))

\* The request of httptest.NewRequest("GET", target, nil): URL.Path is the
\* unescaped target, and URL.RawPath is the target when it is not the
\* default encoding of URL.Path (none of the characters here is escaped by
\* default), and empty otherwise.
NewRequest(target) ==
    LET path == Unescape(target)
    IN  [Path |-> path, RawPath |-> IF path = target THEN Empty ELSE target]

\* Request targets handed to the handler, after the leading slash.
Targets ==
    {NewP(n, c) : n \in {NameA, NameMJS, NameDXA}, c \in {"empty", "main.js", "a"}}
        \cup {NameMJS, NameLook, NewP(NameFoo, "a"), <<".", "a", ".">>, Empty,
              <<"m", ".">> \o ZeroHash \o <<".", "j", "s">>,
              <<"%", "6", "D", ".">> \o Sha256Hex6("main.js") \o <<".", "j", "s">>,
              <<"%", "6", "D", ".">> \o ZeroHash \o <<".", "j", "s">>,
              <<"m", "%", "2", "E">> \o Sha256Hex6("main.js") \o <<".", "j", "s">>,
              <<"%", "6", "D", ".", "j", "s">>}

Requests == {NewRequest(<<"/">> \o t) : t \in Targets}

\* The inputs of the callers that run concurrently: the file set and the
\* argument of each call.
ConcMaybePathArgs ==
    {<<"h1", NameMJS>>, <<"h2", NameMJS>>, <<"h1", NameFoo>>, <<"h1", Root>>}

ConcPathArgs == {<<"h1", NameMJS>>}

ConcUnhashedArgs ==
    {<<"h1", NewP(NameMJS, "main.js")>>, <<"h1", NewP(NameMJS, "a")>>}

ConcRequests ==
    {<<"h1", NewRequest(<<"/", "%", "6", "D", ".">>
                            \o Sha256Hex6("main.js") \o <<".", "j", "s">>)>>}

(***************************************************************************)
(* The calls.                                                              *)
(***************************************************************************)
Init ==
    /\ fsys \in FileSystems
    /\ cachedHashes = <<>>
    /\ readKeys = {}
    /\ proc = [p \in Procs |-> IdleFrame]

Begin(op, fs) == [IdleFrame EXCEPT !.op = op, !.fs = fs]

\* MaybePath(fs, filename)
CallMaybePath(p, fs, filename) ==
    /\ proc[p].pc = "idle"
    /\ proc' = [proc EXCEPT ![p] =
           [Begin("MaybePath", fs) EXCEPT !.pc = "load", !.filename = filename]]
    /\ UNCHANGED <<fsys, cachedHashes, readKeys>>

\* Path(fs, filename)
CallPath(p, fs, filename) ==
    /\ proc[p].pc = "idle"
    /\ proc' = [proc EXCEPT ![p] =
           [Begin("Path", fs) EXCEPT !.pc = "load", !.filename = filename]]
    /\ UNCHANGED <<fsys, cachedHashes, readKeys>>

\* Unhashed(fs, urlpath)
CallUnhashed(p, fs, urlpath) ==
    /\ proc[p].pc = "idle"
    /\ proc' = [proc EXCEPT ![p] = EnterUnhashed(Begin("Unhashed", fs), urlpath)]
    /\ UNCHANGED <<fsys, cachedHashes, readKeys>>

\* The handler is called with request req: it clones the request and
\* calls Unhashed on the path.
CallHandle(p, fs, req) ==
    /\ proc[p].pc = "idle"
    /\ LET c  == Clone(req)
           fr == [Begin("Handle", fs) EXCEPT
                     !.req0 = req, !.req = req, !.r = c.r, !.fresh = c.fresh,
                     !.stage = 1]
       IN  proc' = [proc EXCEPT ![p] = EnterUnhashed(fr, TrimPrefix(fr.r.Path))]
    /\ UNCHANGED <<fsys, cachedHashes, readKeys>>

(***************************************************************************)
(* The steps of MaybePath.                                                 *)
(***************************************************************************)
\* A plausible slip: the key leaves the file set out.
KeyWithoutFS(fr) == <<"h1", fr.filename>>

\* cacheKey{fs: fs, filename: filename}
Key(fr) == <<fr.fs, fr.filename>>

\* A plausible slip: the stored path is ignored and the file read again.
LoadAlwaysMiss(p) ==
    /\ proc[p].pc = "load"
    /\ proc' = [proc EXCEPT ![p] = [proc[p] EXCEPT !.pc = "open", !.found = FALSE]]
    /\ UNCHANGED <<fsys, cachedHashes, readKeys>>

\* cachedHashes.Load(key), and the return of the stored path if found
Load(p) ==
    /\ proc[p].pc = "load"
    /\ LET fr == proc[p]
       IN  proc' = [proc EXCEPT ![p] =
               IF Key(fr) \in DOMAIN cachedHashes
               THEN AfterMaybePath([fr EXCEPT !.found = TRUE],
                                   cachedHashes[Key(fr)], NoErr)
               ELSE [fr EXCEPT !.pc = "open", !.found = FALSE]]
    /\ UNCHANGED <<fsys, cachedHashes, readKeys>>

\* A plausible slip: a failed open is remembered as an empty path.
OpenMemoizesFailure(p) ==
    /\ proc[p].pc = "open"
    /\ LET fr == proc[p]
       IN  IF File(fr.fs, fr.filename) = "absent"
           THEN /\ proc' = [proc EXCEPT ![p] =
                       AfterMaybePath(fr, Empty, OpenError(fr.filename))]
                /\ cachedHashes' =
                       [k \in DOMAIN cachedHashes \cup {Key(fr)} |->
                           IF k = Key(fr) THEN Empty ELSE cachedHashes[k]]
           ELSE /\ proc' = [proc EXCEPT ![p] =
                       [fr EXCEPT !.pc = "read", !.nopen = @ + 1]]
                /\ UNCHANGED cachedHashes
    /\ UNCHANGED <<fsys, readKeys>>

\* fs.Open(filename)
Open(p) ==
    /\ proc[p].pc = "open"
    /\ LET fr == proc[p]
       IN  proc' = [proc EXCEPT ![p] =
               IF File(fr.fs, fr.filename) = "absent"
               THEN AfterMaybePath(fr, Empty, OpenError(fr.filename))
               ELSE [fr EXCEPT !.pc = "read", !.nopen = @ + 1]]
    /\ UNCHANGED <<fsys, cachedHashes, readKeys>>

\* io.Copy(h, f): the file is read to its end, or the read fails.  readKeys
\* keeps the keys whose file has been read.
Read(p) ==
    /\ proc[p].pc = "read"
    /\ LET fr == proc[p]
       IN  IF File(fr.fs, fr.filename) = "dir"
           THEN /\ proc' = [proc EXCEPT ![p] =
                       AfterMaybePath(fr, Empty, ReadError(fr.filename))]
                /\ UNCHANGED readKeys
           ELSE /\ proc' = [proc EXCEPT ![p] = [fr EXCEPT !.pc = "store"]]
                /\ readKeys' = readKeys \cup {Key(fr)}
    /\ UNCHANGED <<fsys, cachedHashes>>

\* A plausible slip: the file name is stored in place of the composed path.
StoreFilename(p) ==
    /\ proc[p].pc = "store"
    /\ LET fr   == proc[p]
           newP == NewP(fr.filename, File(fr.fs, fr.filename))
       IN  /\ cachedHashes' =
                 [k \in DOMAIN cachedHashes \cup {Key(fr)} |->
                     IF k = Key(fr) THEN fr.filename ELSE cachedHashes[k]]
           /\ proc' = [proc EXCEPT ![p] = AfterMaybePath(fr, newP, NoErr)]
    /\ UNCHANGED <<fsys, readKeys>>

\* A plausible slip: the store replaces the map by one that holds the new
\* entry alone.
StoreSingleEntry(p) ==
    /\ proc[p].pc = "store"
    /\ LET fr   == proc[p]
           newP == NewP(fr.filename, File(fr.fs, fr.filename))
       IN  /\ cachedHashes' = [k \in {Key(fr)} |-> newP]
           /\ proc' = [proc EXCEPT ![p] = AfterMaybePath(fr, newP, NoErr)]
    /\ UNCHANGED <<fsys, readKeys>>

\* The path is composed from the digest and stored.
Store(p) ==
    /\ proc[p].pc = "store"
    /\ LET fr   == proc[p]
           newP == NewP(fr.filename, File(fr.fs, fr.filename))
       IN  /\ cachedHashes' =
                 [k \in DOMAIN cachedHashes \cup {Key(fr)} |->
                     IF k = Key(fr) THEN newP ELSE cachedHashes[k]]
           /\ proc' = [proc EXCEPT ![p] = AfterMaybePath(fr, newP, NoErr)]
    /\ UNCHANGED <<fsys, readKeys>>

\* The caller has the results of its call and is free for the next.
Finish(p) ==
    /\ proc[p].pc = "done"
    /\ proc' = [proc EXCEPT ![p] = IdleFrame]
    /\ UNCHANGED <<fsys, cachedHashes, readKeys>>

(***************************************************************************)
(* The specifications: one caller with every input, and NProcs callers     *)
(* that interleave at the steps of MaybePath.                              *)
(***************************************************************************)
Next ==
    \/ \E fs \in Handles, filename \in FilenameArgs : CallMaybePath(1, fs, filename)
    \/ \E fs \in Handles, filename \in FilenameArgs : CallPath(1, fs, filename)
    \/ \E fs \in Handles, urlpath \in UrlArgs : CallUnhashed(1, fs, urlpath)
    \/ \E fs \in Handles, req \in Requests : CallHandle(1, fs, req)
    \/ Load(1)
    \/ Open(1)
    \/ Read(1)
    \/ Store(1)
    \/ Finish(1)

Spec == Init /\ [][Next]_vars

ConcNext ==
    \E p \in Procs :
        \/ \E a \in ConcMaybePathArgs : CallMaybePath(p, a[1], a[2])
        \/ \E a \in ConcPathArgs : CallPath(p, a[1], a[2])
        \/ \E a \in ConcUnhashedArgs : CallUnhashed(p, a[1], a[2])
        \/ \E a \in ConcRequests : CallHandle(p, a[1], a[2])
        \/ Load(p)
        \/ Open(p)
        \/ Read(p)
        \/ Store(p)
        \/ Finish(p)

ConcSpec == Init /\ [][ConcNext]_vars

(***************************************************************************)
(* What the properties are stated with.                                    *)
(***************************************************************************)
Done(p, op) == proc[p].pc = "done" /\ proc[p].op = op

\* The hashed path of the regular file filename of file set fs.
Hashed(fs, filename) == NewP(filename, File(fs, filename))

\* The hashed paths of the regular files of file set fs.
TrueHashed(fs) == {Hashed(fs, f) : f \in {n \in Names : IsRegular(fs, n)}}

\* The extension of a file name, stated without a scan: the suffix from the
\* last '.' after the last '/', empty if there is none.
SuffixExt(filename) ==
    LET slashes == {i \in 1..Len(filename) : filename[i] = "/"}
        dots    == {i \in 1..Len(filename) :
                       /\ filename[i] = "."
                       /\ \A j \in slashes : j < i}
    IN  IF dots = {} THEN Empty
        ELSE LET last == CHOOSE i \in dots : \A j \in dots : j <= i
             IN  SubSeq(filename, last, Len(filename))

\* The error of decoding urlpath in file set fs, as a function of the file
\* set alone.
DecodeErr(fs, urlpath) ==
    LET cand == UnhashedFilename(urlpath)
    IN  CASE File(fs, cand) = "absent" -> OpenError(cand)
          [] File(fs, cand) = "dir"    -> ReadError(cand)
          [] Hashed(fs, cand) # urlpath -> PathMismatchError(urlpath)
          [] OTHER -> NoErr

(***************************************************************************)
(* C1.  Round trip: Unhashed of the hashed path of a regular file of the   *)
(* file set succeeds and returns the name of that file, whatever the       *)
(* cache holds, for names with or without an extension and with dots in    *)
(* the stem or in a directory name.                                        *)
(***************************************************************************)
RoundTrip ==
    \A p \in Procs : \A f \in Names :
        ( /\ Done(p, "Unhashed")
          /\ IsRegular(proc[p].fs, f)
          /\ proc[p].urlpath = Hashed(proc[p].fs, f) )
        => proc[p].err = NoErr /\ proc[p].val = f

\* The hashed path of d.x/a, a name without extension under a directory
\* with a dot, decoded from the cache.
RoundTripWitness ==
    \E p \in Procs :
        /\ Done(p, "Unhashed")
        /\ proc[p].fs = "h1"
        /\ proc[p].urlpath = NewP(NameDXA, "a")
        /\ proc[p].found
        /\ proc[p].val = NameDXA

(***************************************************************************)
(* C2.  Decode soundness: when Unhashed returns a file name without error, *)
(* that name is a regular file of the file set whose hashed path is        *)
(* exactly the input; when it returns an error, the file name is empty.    *)
(***************************************************************************)
DecodeSound ==
    \A p \in Procs :
        Done(p, "Unhashed") =>
            IF proc[p].err = NoErr
            THEN /\ IsRegular(proc[p].fs, proc[p].val)
                 /\ Hashed(proc[p].fs, proc[p].val) = proc[p].urlpath
            ELSE proc[p].val = Empty

\* A decode that succeeds for a name with two dots in its stem.
DecodeSoundWitness ==
    \E p \in Procs :
        /\ Done(p, "Unhashed")
        /\ proc[p].err = NoErr
        /\ proc[p].val = NameABJS

(***************************************************************************)
(* C3, as claimed.  Tamper rejection: Unhashed of a path of the hashed     *)
(* shape that is not the hashed path of a file of the file set fails with  *)
(* the path mismatch error and with no other error.                        *)
(***************************************************************************)
TamperIsMismatch ==
    \A p \in Procs :
        ( /\ Done(p, "Unhashed")
          /\ proc[p].urlpath \in HashedNames
          /\ proc[p].urlpath \notin TrueHashed(proc[p].fs) )
        => proc[p].err = PathMismatchError(proc[p].urlpath)

(***************************************************************************)
(* C3, amended.  Unhashed of a path that is not the hashed path of a file  *)
(* of the file set never succeeds and returns the empty name; the error is *)
(* the path mismatch error when the file named by the path without its     *)
(* digest segment is a regular file, the open error when that file cannot  *)
(* be opened, and the read error when it opens and cannot be read.         *)
(***************************************************************************)
TamperRejected ==
    \A p \in Procs :
        ( /\ Done(p, "Unhashed")
          /\ proc[p].urlpath \notin TrueHashed(proc[p].fs) )
        => /\ proc[p].val = Empty
           /\ proc[p].err # NoErr
           /\ proc[p].err =
                 CASE File(proc[p].fs, proc[p].filename) = "absent" ->
                          OpenError(proc[p].filename)
                   [] File(proc[p].fs, proc[p].filename) = "dir" ->
                          ReadError(proc[p].filename)
                   [] OTHER -> PathMismatchError(proc[p].urlpath)

\* m.000000000000.js is rejected with the path mismatch error.
TamperRejectedWitness ==
    \E p \in Procs :
        /\ Done(p, "Unhashed")
        /\ proc[p].urlpath = <<"m", ".">> \o ZeroHash \o <<".", "j", "s">>
        /\ proc[p].err = PathMismatchError(proc[p].urlpath)

(***************************************************************************)
(* C4.  The path MaybePath and Path return for a regular file is           *)
(* stem + "." + digest + ext, with ext the suffix from the last '.' of the *)
(* last path segment and the digest that of the file's content, on the     *)
(* call that computes it and on the calls that find it in the cache.       *)
(***************************************************************************)
EncodeIsPure ==
    \A p \in Procs :
        ( /\ Done(p, "MaybePath") \/ Done(p, "Path")
          /\ proc[p].err = NoErr )
        => /\ IsRegular(proc[p].fs, proc[p].filename)
           /\ LET filename == proc[p].filename
                  ext      == SuffixExt(filename)
                  stem     == SubSeq(filename, 1, Len(filename) - Len(ext))
              IN  proc[p].val = stem \o <<".">>
                        \o Sha256Hex6(File(proc[p].fs, filename)) \o ext

\* The path of d.x/a returned from the cache: d.x/a.ca978112ca1b
EncodeIsPureWitness ==
    \E p \in Procs :
        /\ Done(p, "MaybePath")
        /\ proc[p].found
        /\ proc[p].filename = NameDXA
        /\ proc[p].val = NameDXA \o <<".">> \o Sha256Hex6("a")

(***************************************************************************)
(* C5.  Concurrent first access: callers of MaybePath for one key that     *)
(* have returned without error have returned the same path, and the cache  *)
(* holds that path for the key.                                            *)
(***************************************************************************)
ConcurrentFirstAccess ==
    \A p, q \in Procs :
        ( /\ Done(p, "MaybePath") /\ proc[p].err = NoErr
          /\ Done(q, "MaybePath") /\ proc[q].err = NoErr
          /\ Key(proc[p]) = Key(proc[q]) )
        => /\ proc[p].val = proc[q].val
           /\ Key(proc[p]) \in DOMAIN cachedHashes
           /\ cachedHashes[Key(proc[p])] = proc[p].val

\* Two callers that both missed the cache for one key and both returned.
ConcurrentFirstAccessWitness ==
    \E p, q \in Procs :
        /\ p # q
        /\ Done(p, "MaybePath") /\ proc[p].err = NoErr /\ ~proc[p].found
        /\ Done(q, "MaybePath") /\ proc[q].err = NoErr /\ ~proc[q].found
        /\ Key(proc[p]) = Key(proc[q])

(***************************************************************************)
(* C6.  Handler rejection: when decoding the path of the request fails,    *)
(* or the request has a raw path and decoding that fails, the handler      *)
(* answers 400 with the message of that error and the file server is not   *)
(* called; the file server is called only when every decode succeeded.     *)
(***************************************************************************)
RawPathErr(fs, req) ==
    IF req.RawPath = Empty THEN NoErr
    ELSE DecodeErr(fs, TrimPrefix(req.RawPath))

HandlerRejects ==
    \A p \in Procs :
        proc[p].op = "Handle" =>
            LET e1 == DecodeErr(proc[p].fs, TrimPrefix(proc[p].req0.Path))
                e2 == RawPathErr(proc[p].fs, proc[p].req0)
                e  == IF e1 # NoErr THEN e1 ELSE e2
            IN  /\ proc[p].served => e1 = NoErr /\ e2 = NoErr
                /\ (proc[p].pc = "done" /\ e # NoErr) =>
                       /\ proc[p].status = StatusBadRequest
                       /\ proc[p].body = <<Sprint(e), "\n">>
                       /\ ~proc[p].served

\* A request whose path decodes and whose raw path does not.
HandlerRejectsWitness ==
    \E p \in Procs :
        /\ Done(p, "Handle")
        /\ proc[p].stage = 2
        /\ proc[p].status = StatusBadRequest
        /\ ~proc[p].served

(***************************************************************************)
(* C7, as claimed.  Delegated path: the request handed to the file server  *)
(* has the path "/" + the file name decoded from the path of the request,  *)
(* also when the request has a raw path.                                   *)
(***************************************************************************)
DelegatedPath ==
    \A p \in Procs :
        (Done(p, "Handle") /\ proc[p].served) =>
            proc[p].servedReq.Path =
                <<"/">> \o UnhashedFilename(TrimPrefix(proc[p].req0.Path))

(***************************************************************************)
(* C8.  Unknown file: for a name that cannot be opened MaybePath returns   *)
(* the empty string and the open error, and Path panics with that error;   *)
(* for a regular file Path does not panic and returns the hashed path that *)
(* MaybePath returns.                                                      *)
(***************************************************************************)
UnknownFile ==
    \A p \in Procs :
        LET fr == proc[p]
        IN  /\ (Done(p, "MaybePath") /\ File(fr.fs, fr.filename) = "absent") =>
                   fr.val = Empty /\ fr.err = OpenError(fr.filename)
            /\ (Done(p, "Path") /\ File(fr.fs, fr.filename) = "absent") =>
                   fr.panicked /\ fr.err = OpenError(fr.filename)
            /\ (Done(p, "Path") /\ IsRegular(fr.fs, fr.filename)) =>
                   ~fr.panicked /\ fr.val = Hashed(fr.fs, fr.filename)

\* Path panicked for foo.
UnknownFileWitness ==
    \E p \in Procs :
        /\ Done(p, "Path")
        /\ proc[p].filename = NameFoo
        /\ proc[p].panicked

(***************************************************************************)
(* C9, as claimed.  A request for the unhashed name of a file of the file  *)
(* set is answered 400 and not delegated, whatever the file set holds.     *)
(***************************************************************************)
UnhashedAlwaysRejected ==
    \A p \in Procs : \A f \in Names :
        ( /\ Done(p, "Handle")
          /\ IsRegular(proc[p].fs, f)
          /\ proc[p].req0.Path = <<"/">> \o f )
        => proc[p].status = StatusBadRequest /\ ~proc[p].served

(***************************************************************************)
(* C9, amended.  For a file of the file set whose name is not itself the   *)
(* hashed path of a file of the set, Unhashed of the name fails and a      *)
(* request for "/" + name is answered 400 and not delegated.               *)
(***************************************************************************)
UnhashedRejected ==
    \A p \in Procs : \A f \in Names :
        ( /\ proc[p].fs \in Handles
          /\ IsRegular(proc[p].fs, f)
          /\ f \notin TrueHashed(proc[p].fs) )
        => /\ (Done(p, "Unhashed") /\ proc[p].urlpath = f) =>
                  proc[p].err # NoErr /\ proc[p].val = Empty
           /\ (Done(p, "Handle") /\ proc[p].req0.Path = <<"/">> \o f) =>
                  proc[p].status = StatusBadRequest /\ ~proc[p].served

\* m.60797db6e8ff.js is a file of a set in which it is the hashed path of
\* no file, and the request for it is rejected.
UnhashedRejectedWitness ==
    \E p \in Procs :
        /\ Done(p, "Handle")
        /\ fsys["h1"] = PlainFS
        /\ proc[p].fs = "h1"
        /\ proc[p].req0.Path = <<"/">> \o NameLook
        /\ proc[p].status = StatusBadRequest

(***************************************************************************)
(* C10.  The handler does not change the request of its caller: while it   *)
(* runs and after it returns, on every path, the URL path and raw path of  *)
(* the caller's request are what they were at the call.                    *)
(***************************************************************************)
RequestUntouched ==
    \A p \in Procs :
        proc[p].op = "Handle" => proc[p].req = proc[p].req0

\* The handler rewrote the path of its own request and delegated.
RequestUntouchedWitness ==
    \E p \in Procs :
        /\ Done(p, "Handle")
        /\ proc[p].served
        /\ proc[p].servedReq.Path # proc[p].req0.Path
        /\ proc[p].req = proc[p].req0

(***************************************************************************)
(* C11, as claimed.  Raw path rewrite: when the request has a raw path and *)
(* both decodes succeed, the request handed to the file server has the raw *)
(* path "/" + the file name decoded from the raw path of the request.      *)
(***************************************************************************)
RawPathRewritten ==
    \A p \in Procs :
        ( /\ Done(p, "Handle")
          /\ proc[p].served
          /\ proc[p].req0.RawPath # Empty )
        => proc[p].servedReq.RawPath =
               <<"/">> \o UnhashedFilename(TrimPrefix(proc[p].req0.RawPath))

(***************************************************************************)
(* C12.  A call that runs cachedHashes.Load when the key has an entry      *)
(* returns without opening or reading a file, and MaybePath and Path       *)
(* return the stored path.                                                 *)
(***************************************************************************)
HitReturnsStored(p) ==
    ( /\ proc[p].pc = "load"
      /\ Key(proc[p]) \in DOMAIN cachedHashes
      /\ proc'[p] # proc[p] )
    => /\ proc'[p].pc \in {"done", "load"}
       /\ proc'[p].nopen = proc[p].nopen
       /\ readKeys' = readKeys
       /\ proc[p].op \in {"MaybePath", "Path"} =>
              /\ proc'[p].val = cachedHashes[Key(proc[p])]
              /\ proc'[p].err = NoErr

\* The step of p in which io.Copy reads the file to its end.
ReadsFile(p) == proc[p].pc = "read" /\ proc'[p].pc = "store"

(***************************************************************************)
(* C12, as claimed.  At most one read per key: in every interleaving the   *)
(* file of a key is read at most once, and a call that finds an entry      *)
(* returns the stored path with no file open or read.                      *)
(***************************************************************************)
ReadAtMostOnce ==
    [][\A p \in Procs :
          /\ ReadsFile(p) => Key(proc[p]) \notin readKeys
          /\ HitReturnsStored(p)]_vars

(***************************************************************************)
(* C12, amended.  Each call of MaybePath opens and reads the file at most  *)
(* once, and only after its own load found no entry, so the file of a key  *)
(* is read once by every caller whose load comes before the first store    *)
(* for the key; a call whose load finds an entry returns the stored path   *)
(* with no file open or read.                                              *)
(***************************************************************************)
ReadOnlyAfterMiss ==
    [][\A p \in Procs :
          /\ ReadsFile(p) =>
                 /\ ~proc[p].found
                 /\ proc[p].nopen <= IF proc[p].op = "Handle" THEN proc[p].stage ELSE 1
          /\ HitReturnsStored(p)]_vars

\* A call of MaybePath that found the entry of a key whose file had been
\* read, and returned the stored path without opening a file.
ReadOnlyAfterMissWitness ==
    \E p \in Procs :
        /\ Done(p, "MaybePath")
        /\ proc[p].found
        /\ proc[p].nopen = 0
        /\ Key(proc[p]) \in readKeys
        /\ proc[p].val = cachedHashes[Key(proc[p])]

(***************************************************************************)
(* C13.  Cache entries are write-once in effect: an entry the cache holds  *)
(* is held with the same value after every step, of calls that fail and of *)
(* callers that store the same key again.                                  *)
(***************************************************************************)
WriteOnce ==
    [][\A k \in DOMAIN cachedHashes :
          /\ k \in DOMAIN cachedHashes'
          /\ cachedHashes'[k] = cachedHashes[k]]_vars

\* Two callers have both computed and stored the path of one key, and the
\* cache holds it beside the entry of another key.
WriteOnceWitness ==
    \E p, q \in Procs :
        /\ p # q
        /\ proc[p].pc = "done" /\ proc[q].pc = "done"
        /\ proc[p].op \in {"MaybePath", "Path"} /\ proc[q].op \in {"MaybePath", "Path"}
        /\ proc[p].err = NoErr /\ proc[q].err = NoErr
        /\ proc[p].nopen = 1 /\ proc[q].nopen = 1
        /\ Key(proc[p]) = Key(proc[q])
        /\ Cardinality(DOMAIN cachedHashes) >= 2
        /\ cachedHashes[Key(proc[p])] = proc[p].val

(***************************************************************************)
(* C14.  Cache coherence per handle: every entry (fs, filename) -> v is    *)
(* for a regular file of fs, and v is the path composed from filename and  *)
(* the digest of the file's content in fs; a call returns the path of its  *)
(* own file set, so file sets that hold one name with different contents   *)
(* get different paths.                                                    *)
(***************************************************************************)
Composed(fs, filename) ==
    LET ext  == SuffixExt(filename)
        stem == SubSeq(filename, 1, Len(filename) - Len(ext))
    IN  stem \o <<".">> \o Sha256Hex6(File(fs, filename)) \o ext

CacheCoherent ==
    /\ \A k \in DOMAIN cachedHashes :
           /\ k[1] \in Handles
           /\ IsRegular(k[1], k[2])
           /\ cachedHashes[k] = Composed(k[1], k[2])
    /\ \A p \in Procs :
           ( /\ Done(p, "MaybePath") \/ Done(p, "Path")
             /\ proc[p].err = NoErr )
           => \A fs \in Handles :
                  ( /\ IsRegular(fs, proc[p].filename)
                    /\ File(fs, proc[p].filename)
                           # File(proc[p].fs, proc[p].filename) )
                  => /\ proc[p].val # Composed(fs, proc[p].filename)
                     /\ proc[p].val = Composed(proc[p].fs, proc[p].filename)

\* The cache holds m.js of both file sets, with different paths, and a
\* call for h2 got the path of h2 from the cache.
CacheCoherentWitness ==
    /\ <<"h1", NameMJS>> \in DOMAIN cachedHashes
    /\ <<"h2", NameMJS>> \in DOMAIN cachedHashes
    /\ cachedHashes[<<"h1", NameMJS>>] # cachedHashes[<<"h2", NameMJS>>]
    /\ \E p \in Procs :
           /\ Done(p, "MaybePath")
           /\ proc[p].fs = "h2"
           /\ proc[p].filename = NameMJS
           /\ proc[p].found
           /\ proc[p].val = cachedHashes[<<"h2", NameMJS>>]

(***************************************************************************)
(* C15.  Failures are not memoized.  The cache changes only in the store   *)
(* step of a call of MaybePath that returns without error; the step in     *)
(* which MaybePath fails to open or to read leaves the cache as it was,    *)
(* with no entry for the failing file name; an Unhashed that fails with    *)
(* the path mismatch adds at most the entry of its candidate file name,    *)
(* with the path composed for that file.                                   *)
(***************************************************************************)
\* The step in which the call of p returns with an error of this kind.
FailsWith(p, kinds) ==
    /\ proc[p].pc # "done"
    /\ proc'[p].pc = "done"
    /\ proc[p].op \in {"MaybePath", "Unhashed"}
    /\ proc'[p].err.kind \in kinds

FailureKeepsCache(p) ==
    /\ FailsWith(p, {"hashfs: error opening file", "read"}) =>
           /\ cachedHashes' = cachedHashes
           /\ Key(proc[p]) \notin DOMAIN cachedHashes'
    /\ (proc[p].pc # "store" /\ proc'[p] # proc[p]) => cachedHashes' = cachedHashes
    /\ (proc[p].pc = "store" /\ proc'[p] # proc[p]) =>
           /\ proc[p].op = "MaybePath" => proc'[p].err = NoErr
           /\ proc[p].op = "Unhashed" =>
                  proc'[p].err.kind \in {"nil", "hashfs: path mismatch"}
    /\ FailsWith(p, {"hashfs: path mismatch"}) =>
           /\ DOMAIN cachedHashes' \subseteq DOMAIN cachedHashes \cup {Key(proc[p])}
           /\ \A k \in DOMAIN cachedHashes : cachedHashes'[k] = cachedHashes[k]
           /\ Key(proc[p]) \in DOMAIN cachedHashes'
           /\ cachedHashes'[Key(proc[p])] = Composed(proc[p].fs, proc[p].filename)

\* The rejected input path of p is the key of no entry that the step adds.
InputNotKeyed(p) ==
    FailsWith(p, {"hashfs: path mismatch"}) =>
        <<proc[p].fs, proc[p].urlpath>> \notin
            DOMAIN cachedHashes' \ DOMAIN cachedHashes

(***************************************************************************)
(* C15, as claimed: with the above, an Unhashed that fails with the path   *)
(* mismatch never adds an entry keyed by the rejected input path.          *)
(***************************************************************************)
FailuresNotMemoized ==
    [][\A p \in Procs : FailureKeepsCache(p) /\ InputNotKeyed(p)]_vars

(***************************************************************************)
(* C15, amended: the entry such an Unhashed adds is keyed by the rejected  *)
(* input path only when that path is its own candidate file name, which is *)
(* the case of an input with no '.' in its last segment.                   *)
(***************************************************************************)
FailuresNotMemoizedButCandidate ==
    [][\A p \in Procs :
          /\ FailureKeepsCache(p)
          /\ InputNotKeyed(p)
                 \/ /\ proc[p].urlpath = proc[p].filename
                    /\ SuffixExt(proc[p].urlpath) = Empty]_vars

\* Unhashed of m.000000000000.js failed with the path mismatch after it
\* read m.js and stored the entry of m.js.
FailuresNotMemoizedWitness ==
    \E p \in Procs :
        /\ Done(p, "Unhashed")
        /\ proc[p].err.kind = "hashfs: path mismatch"
        /\ proc[p].nopen = 1
        /\ proc[p].filename = NameMJS
        /\ Key(proc[p]) \in DOMAIN cachedHashes
        /\ <<proc[p].fs, proc[p].urlpath>> \notin DOMAIN cachedHashes

(***************************************************************************)
(* C16.  No leaked file handles: a call that has returned holds no file    *)
(* open.  The field nopen of a frame counts the files the call opened and  *)
(* did not close; MaybePath has no statement that closes f, so nothing     *)
(* decrements it.                                                          *)
(***************************************************************************)
NoLeakedFiles ==
    \A p \in Procs : proc[p].pc = "done" => proc[p].nopen = 0

(***************************************************************************)
(* C17.  The string surgery of Unhashed is total: for every input the two  *)
(* slice bounds urlpathL-extL and urlpathL-extL-len(hash) lie between 0    *)
(* and len(urlpath), the file name is the slice followed by the extension, *)
(* and a call that has returned gives either the file name with no error   *)
(* or an error with the empty string.                                      *)
(***************************************************************************)
SurgeryInRange(urlpath) ==
    LET inner == Len(urlpath) - Len(Ext(urlpath))
        bound == UnhashedBound(urlpath)
    IN  /\ 0 <= inner /\ inner <= Len(urlpath)
        /\ 0 <= bound /\ bound <= Len(urlpath)

SurgeryTotal ==
    \A p \in Procs :
        proc[p].op = "Unhashed" =>
            /\ SurgeryInRange(proc[p].urlpath)
            /\ Len(proc[p].filename) <= Len(proc[p].urlpath)
            /\ proc[p].pc = "done" =>
                   \/ proc[p].err = NoErr /\ proc[p].val = proc[p].filename
                   \/ proc[p].err # NoErr /\ proc[p].val = Empty

\* Unhashed of ".a" has returned: the only '.' is taken as the start of the
\* hash, the extension length is reset, and the file name is empty.
SurgeryTotalWitness ==
    \E p \in Procs :
        /\ Done(p, "Unhashed")
        /\ proc[p].urlpath = <<".", "a">>
        /\ UnhashedBound(proc[p].urlpath) = 0
        /\ proc[p].filename = Empty
        /\ proc[p].err # NoErr

====
